---- MODULE Spec2Model ----
(***************************************************************************)
(* A model of westc/youtube-audio-bg: the facade over the YouTube IFRAME   *)
(* player widget.  The repository holds two implementations of the facade, *)
(* either of which a page loads:                                           *)
(*   src/YouTubeAudio.js   guards installed by init(), fixed callback      *)
(*                         lists dispatched by triggerHandlers()           *)
(*   src/unnamed/part_000  class YouTubeAudio with on()/off()/trigger()    *)
(*                         and per-listener invocation limits              *)
(* The variable impl says which of the two files the page has loaded.      *)
(* Everything runs on the host's single thread: application code runs      *)
(* either as a task of its own or inside a listener that a dispatch is     *)
(* invoking; widget notifications and timers are tasks of their own.       *)
(***************************************************************************)
EXTENDS Integers, Sequences, FiniteSets, TLC

\* ------------------------------------------------------------------ bounds
MaxRegs   == 2   \* listeners the application registers with on() (part_000)
MaxActs   == 1   \* what the handlers of one task do besides returning:
                 \* calls of on(), off(), trigger() and exceptions raised
MaxLen    == 3   \* sources in a playlist (YouTubeAudio.js)
MaxPeers  == 2   \* further instances of the facade in the same page

\* ------------------------------------------------------- program constants
Infinity == 1000000   \* the default opt_limit of on(); Infinity-- is Infinity

VARIABLES
  impl,             \* which source file the page has loaded
  ytAvailable,      \* window.YT && YT.Player: the widget API has loaded
  injected,         \* <script src=".../iframe_api"> elements inserted so far
  pendingThrows,    \* how many setTimeout(function() { throw e; }) timers wait to run
  raised,           \* exceptions the step just taken put on the host's error channel
  playerLog,        \* the widget methods the step just taken has called
  ret,              \* the facade call the step just taken has ended, and how
  dispatched,       \* the dispatches the step just taken has completed
  origReady,        \* the payload the widget passed to its ready notification
  rawOutcome,       \* the raw widget callback the step just taken has ended: how
  peers,            \* the phases of the further instances the page has constructed
  missed,           \* some instance has looked for the widget API and not found it
  hasBody,          \* document.body is not null
  \* ---- src/unnamed/part_000
  phaseB,           \* "polling", "constructed" (constructYTA ran), "ready"
  optionsB,         \* the constructor's options
  listenersByName,  \* this._listenersByName
  readyArguments,   \* this._readyArguments
  stateId,          \* this._stateId
  autoPlayB,        \* this._autoPlay
  alreadyCalled,    \* loadYT.alreadyCalled
  stack,            \* the running dispatches, innermost last
  cont,             \* what the running raw callback still has to do
  acts,             \* calls made and exceptions raised by the running task's handlers
  wrapperInBody,    \* this._wrapper.parentNode is not null
  loopB,            \* this._loop
  cueCalls,         \* this._autoPlay at the cueItems() calls: the ones made since the
                    \* last 'cued' notification, and the ones made before it
  \* ---- src/YouTubeAudio.js
  phaseA,           \* "pollDoc", "pollYT" (the two callUntil loops), "constructed"
  optionsA,         \* the options given to the constructor
  docReady,         \* document.readyState is 'interactive' or 'complete'
  YouTube,          \* the module's YouTube variable has been set to global.YT
  isLoadingYTScript,\* the module's flag of the same name
  isReady,          \* this._isReady
  readyEvent,       \* this._readyEvent
  videoIds,         \* this._videoIds (<<>> while it is null)
  index,            \* this._index
  loop,             \* this._loop
  autoPlayA,        \* this._autoPlay
  guards,           \* the keys whose guard is an own property of the instance
  callbacks,        \* this._<name>Callbacks, <<>> while null or undefined
  currentVideoId,   \* addAudio's variable of the same name
  realRuns,         \* the prototype methods the step just taken has run
  console           \* what the step just taken has written with console.error

varsShared == <<impl, ytAvailable, injected, pendingThrows, raised,
                playerLog, ret, dispatched, origReady, rawOutcome, peers, missed, hasBody>>
varsB == <<phaseB, optionsB, listenersByName, readyArguments, stateId,
           autoPlayB, alreadyCalled, stack, cont, acts, wrapperInBody, loopB,
           cueCalls>>
varsA == <<phaseA, optionsA, docReady, YouTube, isLoadingYTScript, isReady, readyEvent,
           videoIds, index, loop, autoPlayA, guards, callbacks, currentVideoId, realRuns,
           console>>
vars == <<varsShared, varsB, varsA>>

\* ------------------------------------------------------------------ values
FileA == "YouTubeAudio.js"
FileB == "part_000"

Handlers   == {"h1"}                  \* the application's listener function
PlayVideoCb == "playVideoCb"          \* cueItems' closure _ => this._player.playVideo()
Payloads   == {"readyEvt"}            \* what the widget passes to onReady
NoArgs     == "undefined"
AppArgs    == "appArgs"               \* the args of an application's trigger()
StateEvt   == "stateEvt"              \* the event object of onStateChange

EventNames == {"ready", "stateChange", "cued"}
RegEvents  == {"ready", "stateChange"}     \* names the application subscribes to
Limits     == {1, Infinity}          \* the opt_limit values the application passes

\* YT.PlayerState, the widget's own enumeration (IFRAME API reference)
PlayerState == [UNSTARTED |-> -1, ENDED |-> 0, PLAYING |-> 1, PAUSED |-> 2,
                BUFFERING |-> 3, CUED |-> 5]
StateNames == DOMAIN PlayerState
\* YouTubeAudio.States[code]: the name of a code, "undefined" for any other number
States(code) ==
  IF \E n \in StateNames : PlayerState[n] = code
  THEN CHOOSE n \in StateNames : PlayerState[n] = code
  ELSE "undefined"
\* String.prototype.toLowerCase on the state names
toLowerCase(name) ==
  CASE name = "UNSTARTED" -> "unstarted" [] name = "ENDED" -> "ended"
    [] name = "PLAYING" -> "playing"     [] name = "PAUSED" -> "paused"
    [] name = "BUFFERING" -> "buffering" [] name = "CUED" -> "cued"
CodesB == {5, 4}      \* codes the widget delivers here; 4 is in no enumeration

OptionsB == { [items |-> FALSE, autoPlay |-> FALSE, onReady |-> FALSE],
              [items |-> TRUE,  autoPlay |-> TRUE,  onReady |-> TRUE] }

\* ----------------------------------------------------------------- helpers
Put(f, k, v) == [x \in (DOMAIN f) \cup {k} |-> IF x = k THEN v ELSE f[x]]
Del(f, k)    == [x \in (DOMAIN f) \ {k} |-> f[x]]
Ascending(S) ==
  CHOOSE s \in [1 .. Cardinality(S) -> S] :
    \A i, j \in 1 .. Cardinality(S) : i < j => s[i] < s[j]
Range(s) == {s[i] : i \in 1 .. Len(s)}
\* a call of method m of the widget with the arguments a
PlayerCall(m, a) == [m |-> m, a |-> a]
IsAscending(s) == \A i, j \in 1 .. Len(s) : i < j => s[i] < s[j]

NoRet == [op |-> "none", key |-> "", id |-> 0, arg |-> 0, outcome |-> "none", value |-> ""]


\* -------------------------------------------------- part_000: the registry
NoEntry == [nextId |-> 0, recs |-> <<>>]      \* _listenersByName[eventName] === undefined
Dec(limit) == IF limit = Infinity THEN Infinity ELSE limit - 1    \* limit--

Top == stack[Len(stack)]
Idle == stack = <<>> /\ cont = <<>>
\* a new task starts when nothing runs; the deferred timers have a delay of 0,
\* are due at once and run before the host starts any later task
TaskStart == Idle /\ pendingThrows = 0
\* application code has the thread: a task of its own, or inside a handler
AppRunning == TaskStart \/ (stack # <<>> /\ Top.inHandler /\ acts < MaxActs)
ActsAfter == IF TaskStart THEN 0 ELSE acts + 1
\* the count starts anew with every task
ActsAtEnd(stk, a) == IF stk = <<>> THEN 0 ELSE a

\* on() returns eventName + ':' + id; off() takes it apart with split(':', 2).
\* No event name of the model holds a colon, so the two parts come back as given.
Handle(e, id) == <<e, id>>
SplitHandle(listenerId) == [eventName |-> listenerId[1], id |-> listenerId[2]]
Handles == {Handle(e, i) : e \in EventNames, i \in 1 .. MaxRegs + 1}

\* lines 332-337 of on(): create the event's entry if need be, take the next id.
\* n and count are not fields of the program: the limit the listener was
\* registered with and the invocations it has had (kept for finite limits)
Register(reg, e, h, limit) ==
  LET entry == IF reg[e].nextId = 0 THEN [nextId |-> 1, recs |-> <<>>] ELSE reg[e]
      id    == entry.nextId
  IN [reg |-> [reg EXCEPT ![e] =
                 [nextId |-> id + 1,
                  recs |-> Put(entry.recs, id, [handler |-> h, limit |-> limit,
                                                n |-> limit, count |-> 0])]],
      id  |-> id]

\* the ids the application's own on() calls have taken so far
Registered(reg) ==
  LET taken(e) == IF reg[e].nextId = 0 THEN 0 ELSE reg[e].nextId - 1
  IN taken("ready") + taken("stateChange") - (IF optionsB.onReady THEN 1 ELSE 0)

\* faulty variants of the registry, which the claims about it must tell from it:
\* a budget test that is off by one, a replay without the arguments of the ready
\* notification, a loop over the keys from the last to the first
HasBudgetOffByOne(limit) == 0 <= limit
ReplayArgsNone == NoArgs
ForInKeysDescending(entry) ==
  LET up == Ascending(DOMAIN entry.recs)
  IN [i \in 1 .. Len(up) |-> up[Len(up) + 1 - i]]

\* the test 0 < listener.limit-- of trigger() and on()
HasBudget(limit) == 0 < limit

\* listener.limit-- followed by listener.handler.apply(this, args)
Invoked(rec) ==
  [rec EXCEPT !.limit = Dec(@), !.count = IF rec.n = Infinity THEN @ ELSE @ + 1]

\* on(): the late subscriber to "ready" is served from this._readyArguments
ShouldReplay(e) == e = "ready" /\ readyArguments # NoArgs
ReplayArgs == readyArguments

\* off(listenerId): reading a property of undefined raises a TypeError
OffResult(reg, listenerId) ==
  LET e  == SplitHandle(listenerId).eventName
      id == SplitHandle(listenerId).id
  IN IF reg[e].nextId = 0
     THEN [reg |-> reg, outcome |-> "throw", value |-> "TypeError"]
     ELSE IF id \notin DOMAIN reg[e].recs
     THEN [reg |-> reg, outcome |-> "throw", value |-> "TypeError"]
     ELSE [reg |-> [reg EXCEPT ![e].recs = Del(@, id)],
           outcome |-> "return", value |-> reg[e].recs[id].handler]

\* for (let id in listeners): integer keys in ascending order, then "nextId",
\* which +id turns into NaN and the loop passes over
ForInKeys(entry) == Ascending(DOMAIN entry.recs)

NewFrame(kind, by, e, args, reg) ==
  [kind |-> kind, by |-> by, e |-> e, args |-> args,
   todo |-> IF kind = "trigger" THEN ForInKeys(reg[e]) ELSE <<>>,
   inHandler |-> FALSE, cur |-> 0,
   live0  |-> IF kind = "trigger"
              THEN {i \in DOMAIN reg[e].recs : reg[e].recs[i].limit > 0} ELSE {},
   spent0 |-> IF kind = "trigger"
              THEN {i \in DOMAIN reg[e].recs : reg[e].recs[i].limit <= 0} ELSE {},
   called |-> <<>>, dead |-> {}, threw |-> {}, sched |-> 0, pure |-> TRUE]

MarkImpure(stk) == [i \in 1 .. Len(stk) |-> [stk[i] EXCEPT !.pure = FALSE]]
IteratingFrames(e) == {i \in 1 .. Len(stack) : stack[i].kind = "trigger" /\ stack[i].e = e}
\* a key added while a for-in is running may or may not be visited by it
AddKey(stk, seen, id) ==
  [i \in 1 .. Len(stk) |-> IF i \in seen THEN [stk[i] EXCEPT !.todo = Append(@, id)] ELSE stk[i]]

Caller == IF Idle THEN "app" ELSE "handler"

\* ---- on(eventName, callback, opt_limit), lines 331-355
On(e, h, limit) ==
  /\ impl = FileB /\ AppRunning
  /\ UNCHANGED varsA /\ UNCHANGED <<wrapperInBody, loopB, cueCalls>>
  /\ Registered(listenersByName) < MaxRegs
  /\ LET r      == Register(listenersByName, e, h, limit)
         replay == ShouldReplay(e)
         invoke == replay /\ HasBudget(limit)
         frame  == [NewFrame("replay", Caller, e, ReplayArgs, r.reg)
                      EXCEPT !.inHandler = TRUE, !.cur = r.id, !.called = <<r.id>>]
     IN /\ listenersByName' = IF replay
                              THEN [r.reg EXCEPT ![e].recs[r.id] =
                                      IF invoke THEN Invoked(@) ELSE [@ EXCEPT !.limit = Dec(@)]]
                              ELSE r.reg
        /\ \E seen \in SUBSET IteratingFrames(e) :
             stack' = IF invoke
                      THEN Append(AddKey(MarkImpure(stack), seen, r.id), frame)
                      ELSE AddKey(MarkImpure(stack), seen, r.id)
        /\ ret' = [op |-> "on", key |-> e, id |-> r.id, arg |-> limit,
                   outcome |-> IF invoke THEN "invoking" ELSE "return",
                   value |-> IF invoke THEN ReplayArgs ELSE "handle"]
  /\ playerLog' = <<>> /\ dispatched' = <<>> /\ rawOutcome' = "none"
  /\ raised' = 0 /\ UNCHANGED <<peers, missed, hasBody>>
  /\ UNCHANGED <<impl, ytAvailable, injected, pendingThrows, origReady>>
  /\ acts' = ActsAfter
  /\ UNCHANGED <<phaseB, optionsB, readyArguments, stateId, autoPlayB, alreadyCalled, cont>>

\* ---- off(listenerId), lines 364-372
Off(listenerId) ==
  /\ impl = FileB /\ AppRunning
  /\ UNCHANGED varsA /\ UNCHANGED <<wrapperInBody, loopB, cueCalls>>
  /\ LET r == OffResult(listenersByName, listenerId)
     IN /\ listenersByName' = r.reg
        /\ ret' = [op |-> "off", key |-> "", id |-> 0, arg |-> 0,
                   outcome |-> r.outcome, value |-> r.value]
  /\ stack' = MarkImpure(stack)
  /\ playerLog' = <<>> /\ dispatched' = <<>> /\ rawOutcome' = "none"
  /\ raised' = 0 /\ UNCHANGED <<peers, missed, hasBody>>
  /\ UNCHANGED <<impl, ytAvailable, injected, pendingThrows, origReady>>
  /\ acts' = ActsAfter
  /\ UNCHANGED <<phaseB, optionsB, readyArguments, stateId, autoPlayB, alreadyCalled, cont>>

\* ---- trigger(eventName, args): lines 297-298, the entry of the call
Trigger(e) ==
  /\ impl = FileB /\ AppRunning
  /\ UNCHANGED varsA /\ UNCHANGED <<wrapperInBody, loopB, cueCalls>>
  /\ IF listenersByName[e].nextId = 0
     THEN /\ ret' = [op |-> "trigger", key |-> "", id |-> 0, arg |-> 0, outcome |-> "return",
                     value |-> "undefined"]
          /\ stack' = MarkImpure(stack)
     ELSE /\ stack' = Append(MarkImpure(stack),
                             NewFrame("trigger", Caller, e, AppArgs, listenersByName))
          /\ ret' = NoRet
  /\ playerLog' = <<>> /\ dispatched' = <<>> /\ rawOutcome' = "none"
  /\ raised' = 0 /\ UNCHANGED <<peers, missed, hasBody>>
  /\ UNCHANGED <<impl, ytAvailable, injected, pendingThrows, origReady>>
  /\ acts' = ActsAfter
  /\ UNCHANGED <<phaseB, optionsB, listenersByName, readyArguments, stateId,
                 autoPlayB, alreadyCalled, cont>>

\* what a finished dispatch leaves behind
Summary(f, outcome) ==
  [file |-> impl, e |-> f.e, live0 |-> f.live0, spent0 |-> f.spent0, called |-> f.called,
   dead |-> f.dead, threw |-> f.threw, sched |-> f.sched, outcome |-> outcome,
   pure |-> f.pure]

\* the raw callback is over once its last dispatch has returned
RawAfter(f, stk, c) ==
  IF f.by = "widget" /\ stk = <<>> /\ c = <<>> THEN "returned" ELSE "none"

\* ---- trigger(): one turn of the for-in loop, lines 299-315
TriggerLoop ==
  /\ impl = FileB
  /\ UNCHANGED varsA /\ UNCHANGED <<wrapperInBody, loopB, cueCalls>>
  /\ stack # <<>> /\ Top.kind = "trigger" /\ ~Top.inHandler /\ Top.todo # <<>>
  /\ LET n    == Len(stack)
         e    == Top.e
         id   == Head(Top.todo)
         recs == listenersByName[e].recs
     IN IF id \notin DOMAIN recs
        THEN \* a key deleted before the loop reaches it is not visited
             /\ stack' = [stack EXCEPT ![n].todo = Tail(@), ![n].dead = @ \cup {id}]
             /\ UNCHANGED listenersByName
             /\ playerLog' = <<>>
        ELSE IF HasBudget(recs[id].limit)
        THEN /\ listenersByName' = [listenersByName EXCEPT ![e].recs[id] = Invoked(@)]
             /\ IF recs[id].handler = PlayVideoCb
                THEN /\ playerLog' = <<PlayerCall("playVideo", <<>>)>>
                     /\ stack' = [stack EXCEPT ![n].todo = Tail(@),
                                               ![n].called = Append(@, id)]
                ELSE /\ stack' = [stack EXCEPT ![n].todo = Tail(@),
                                               ![n].called = Append(@, id),
                                               ![n].cur = id, ![n].inHandler = TRUE]
                     /\ playerLog' = <<>>
        ELSE /\ listenersByName' =
                  OffResult([listenersByName EXCEPT ![e].recs[id].limit = Dec(@)],
                            Handle(e, id)).reg
             /\ stack' = [stack EXCEPT ![n].todo = Tail(@), ![n].dead = @ \cup {id}]
             /\ playerLog' = <<>>
  /\ ret' = NoRet /\ dispatched' = <<>> /\ rawOutcome' = "none"
  /\ raised' = 0 /\ UNCHANGED <<peers, missed, hasBody>>
  /\ UNCHANGED <<impl, ytAvailable, injected, pendingThrows, origReady>>
  /\ UNCHANGED <<phaseB, optionsB, readyArguments, stateId, autoPlayB, alreadyCalled, cont,
                 acts>>

\* ---- trigger(): the loop is over, return this (line 316)
TriggerReturn ==
  /\ impl = FileB
  /\ UNCHANGED varsA /\ UNCHANGED <<wrapperInBody, loopB, cueCalls>>
  /\ stack # <<>> /\ Top.kind = "trigger" /\ ~Top.inHandler /\ Top.todo = <<>>
  /\ stack' = SubSeq(stack, 1, Len(stack) - 1)
  /\ dispatched' = <<Summary(Top, "returned")>>
  /\ ret' = IF Top.by = "widget" THEN NoRet
            ELSE [op |-> "trigger", key |-> "", id |-> 0, arg |-> 0, outcome |-> "return",
                  value |-> "this"]
  /\ rawOutcome' = RawAfter(Top, stack', cont)
  /\ playerLog' = <<>>
  /\ raised' = 0 /\ UNCHANGED <<peers, missed, hasBody>>
  /\ UNCHANGED <<impl, ytAvailable, injected, pendingThrows, origReady>>
  /\ acts' = ActsAtEnd(stack', acts)
  /\ UNCHANGED <<phaseB, optionsB, listenersByName, readyArguments, stateId, autoPlayB,
                 alreadyCalled, cont>>

\* the stack once the running handler is over: a dispatch goes on with its loop,
\* an on() that was replaying "ready" returns its listener id
AfterHandler(threw, timers) ==
  LET n == Len(stack)
      f == [Top EXCEPT !.inHandler = FALSE,
                       !.threw = IF threw THEN @ \cup {Top.cur} ELSE @,
                       !.sched = @ + timers]
  IN IF Top.kind = "replay" THEN SubSeq(stack, 1, n - 1) ELSE [stack EXCEPT ![n] = f]

RetAfterHandler ==
  IF Top.kind = "replay"
  THEN [op |-> "on", key |-> Top.e, id |-> Top.cur, arg |-> 0, outcome |-> "return",
        value |-> "handle"]
  ELSE NoRet

\* ---- the handler that is running returns
HandlerReturn ==
  /\ impl = FileB
  /\ UNCHANGED varsA /\ UNCHANGED <<wrapperInBody, loopB, cueCalls>>
  /\ stack # <<>> /\ Top.inHandler
  /\ stack' = AfterHandler(FALSE, 0)
  /\ ret' = RetAfterHandler
  /\ playerLog' = <<>> /\ dispatched' = <<>> /\ rawOutcome' = "none"
  /\ raised' = 0 /\ UNCHANGED <<peers, missed, hasBody>>
  /\ UNCHANGED <<impl, ytAvailable, injected, pendingThrows, origReady>>
  /\ acts' = ActsAtEnd(stack', acts)
  /\ UNCHANGED <<phaseB, optionsB, listenersByName, readyArguments, stateId, autoPlayB,
                 alreadyCalled, cont>>

\* catch (e) { setTimeout(_ => { throw e; }, 0); }  (lines 307-309 and 347-349)
CatchB(timers) == timers + 1

\* ---- the handler that is running raises an exception
HandlerThrow ==
  /\ impl = FileB
  /\ UNCHANGED varsA /\ UNCHANGED <<wrapperInBody, loopB, cueCalls>>
  /\ stack # <<>> /\ Top.inHandler
  /\ acts < MaxActs
  /\ pendingThrows' = CatchB(pendingThrows)
  /\ stack' = AfterHandler(TRUE, pendingThrows' - pendingThrows)
  /\ acts' = ActsAtEnd(stack', acts + 1)
  /\ ret' = RetAfterHandler
  /\ playerLog' = <<>> /\ dispatched' = <<>> /\ rawOutcome' = "none"
  /\ raised' = 0 /\ UNCHANGED <<peers, missed, hasBody>>
  /\ UNCHANGED <<impl, ytAvailable, injected, origReady>>
  /\ UNCHANGED <<phaseB, optionsB, listenersByName, readyArguments, stateId, autoPlayB,
                 alreadyCalled, cont>>

\* ---- a deferred timer runs: its exception reaches the host's error channel
TimerThrow ==
  /\ Idle
  /\ pendingThrows > 0
  /\ pendingThrows' = pendingThrows - 1
  /\ raised' = 1 /\ UNCHANGED <<peers, missed, hasBody>>
  /\ playerLog' = <<>> /\ ret' = NoRet /\ dispatched' = <<>> /\ rawOutcome' = "none"
  /\ UNCHANGED <<impl, ytAvailable, injected, origReady>>
  /\ UNCHANGED varsB
  /\ UNCHANGED <<phaseA, optionsA, docReady, YouTube, isLoadingYTScript, isReady, readyEvent,
                 videoIds, index, loop, autoPlayA, guards, callbacks, currentVideoId>>
  /\ realRuns' = <<>> /\ console' = <<>>

\* ------------------------------------------- part_000: the facade's lifecycle
\* constructYTA(), lines 462-470: options.onXxx become listeners (default limit)
ConstructYTA(reg, options) ==
  IF options.onReady THEN Register(reg, "ready", "h1", Infinity).reg ELSE reg

\* the record of the cueItems() calls: a call is waiting for the next 'cued'
\* notification, which serves the calls made before it
NoCueCalls == [waiting |-> {}, served |-> {}]
CueCalled(calls, autoPlay) == [calls EXCEPT !.waiting = @ \cup {autoPlay}]
CuedNotified(calls) == [waiting |-> {}, served |-> calls.waiting]

\* a cueItems() that registers its listener whatever this._autoPlay is
CueItemsRegAlways(reg, autoPlay) == Register(reg, "cued", PlayVideoCb, 1).reg
\* cueItems(items), lines 158-165
CueItemsReg(reg, autoPlay) ==
  IF autoPlay THEN Register(reg, "cued", PlayVideoCb, 1).reg ELSE reg
CueItemsCalls == <<PlayerCall("cuePlaylist", <<"items">>), PlayerCall("setLoop", <<"loop">>)>>

\* one run of the callback the constructor polls with, lines 22-28, inside the
\* wrapper of callUntil, lines 406-417. constructYTA appends its wrapper to
\* document.body (line 473): with no body yet that is a TypeError, which the
\* wrapper catches and throws again from a timer, and it sets no further timer
PollOutcomeB(yt, body) ==
  IF ~yt THEN [phase |-> "polling", throws |-> 0]
  ELSE IF body THEN [phase |-> "constructed", throws |-> 0]
  ELSE [phase |-> "failed", throws |-> 1]

\* ---- the constructor's callUntil(..., 250) timer, lines 22-28 and 404-420
PollB ==
  /\ impl = FileB /\ TaskStart
  /\ UNCHANGED varsA
  /\ phaseB = "polling"
  /\ LET r == PollOutcomeB(ytAvailable, hasBody)
     IN /\ phaseB' = r.phase
        /\ listenersByName' = IF r.phase = "polling" THEN listenersByName
                              ELSE ConstructYTA(listenersByName, optionsB)
        /\ wrapperInBody' = (r.phase = "constructed")
        /\ pendingThrows' = pendingThrows + r.throws
  /\ UNCHANGED <<loopB, cueCalls>>
  /\ missed' = (missed \/ ~ytAvailable)
  /\ playerLog' = <<>> /\ ret' = NoRet /\ dispatched' = <<>> /\ rawOutcome' = "none"
  /\ raised' = 0 /\ UNCHANGED <<peers, hasBody>>
  /\ UNCHANGED <<impl, ytAvailable, injected, origReady>>
  /\ acts' = 0
  /\ UNCHANGED <<optionsB, readyArguments, stateId, autoPlayB, alreadyCalled, stack, cont>>

\* ---- the injected script has run: window.YT.Player exists from now on
ScriptLoads ==
  /\ TaskStart
  /\ ~ytAvailable /\ injected > 0
  /\ ytAvailable' = TRUE
  /\ playerLog' = <<>> /\ ret' = NoRet /\ dispatched' = <<>> /\ rawOutcome' = "none"
  /\ raised' = 0 /\ UNCHANGED <<peers, missed, hasBody>>
  /\ UNCHANGED <<impl, injected, pendingThrows, origReady>>
  /\ UNCHANGED varsB
  /\ UNCHANGED <<phaseA, optionsA, docReady, YouTube, isLoadingYTScript, isReady, readyEvent,
                 videoIds, index, loop, autoPlayA, guards, callbacks, currentVideoId>>
  /\ realRuns' = <<>> /\ console' = <<>>

\* ---- events.onReady of the widget, lines 479-486
WidgetReadyB(payload) ==
  /\ impl = FileB /\ TaskStart
  /\ UNCHANGED varsA /\ UNCHANGED <<wrapperInBody, loopB>>
  /\ phaseB = "constructed"
  /\ phaseB' = "ready"
  /\ readyArguments' = payload
  /\ origReady' = payload
  /\ IF optionsB.items
     THEN /\ listenersByName' = CueItemsReg(listenersByName, autoPlayB)
          /\ playerLog' = CueItemsCalls
          /\ cueCalls' = CueCalled(cueCalls, autoPlayB)
     ELSE /\ playerLog' = <<>>
          /\ UNCHANGED <<listenersByName, cueCalls>>
  /\ cont' = << [kind |-> "trigger", e |-> "ready", args |-> payload, code |-> 0] >>
  /\ ret' = NoRet /\ dispatched' = <<>> /\ rawOutcome' = "none"
  /\ raised' = 0 /\ UNCHANGED <<peers, missed, hasBody>>
  /\ UNCHANGED <<impl, ytAvailable, injected, pendingThrows>>
  /\ acts' = 0
  /\ UNCHANGED <<optionsB, stateId, autoPlayB, alreadyCalled, stack>>

\* ---- events.onStateChange of the widget, lines 487-493
\* a callback that makes the dispatch of its name only
OnStateChangeStepsNamedOnly(code) ==
  << [kind |-> "named", e |-> "", args |-> StateEvt, code |-> code] >>
\* the two trigger() calls of the callback, lines 491-492
OnStateChangeSteps(code) ==
  << [kind |-> "trigger", e |-> "stateChange", args |-> StateEvt, code |-> code],
     [kind |-> "named", e |-> "", args |-> StateEvt, code |-> code] >>
\* getState(), lines 381-383
GetState == IF stateId = <<>> THEN "undefined" ELSE States(stateId[1])

WidgetStateChangeB(code) ==
  /\ impl = FileB /\ TaskStart
  /\ UNCHANGED varsA /\ UNCHANGED <<wrapperInBody, loopB>>
  /\ phaseB \in {"constructed", "ready"}
  /\ stateId' = <<code>>
  /\ cueCalls' = IF code = PlayerState.CUED THEN CuedNotified(cueCalls) ELSE cueCalls
  /\ cont' = OnStateChangeSteps(code)
  /\ playerLog' = <<>> /\ ret' = NoRet /\ dispatched' = <<>> /\ rawOutcome' = "none"
  /\ raised' = 0 /\ UNCHANGED <<peers, missed, hasBody>>
  /\ UNCHANGED <<impl, ytAvailable, injected, pendingThrows, origReady>>
  /\ acts' = 0
  /\ UNCHANGED <<phaseB, optionsB, listenersByName, readyArguments, autoPlayB,
                 alreadyCalled, stack>>

\* ---- the raw callback goes on to its next statement
ContinueRaw ==
  /\ impl = FileB
  /\ UNCHANGED varsA /\ UNCHANGED <<wrapperInBody, loopB, cueCalls>>
  /\ stack = <<>> /\ cont # <<>>
  /\ LET step == Head(cont)
         name == States(step.code)
         e    == IF step.kind = "trigger" THEN step.e ELSE toLowerCase(name)
     IN IF step.kind = "named" /\ name = "undefined"
        THEN \* event.state.toLowerCase() on undefined: a TypeError leaves the callback
             /\ cont' = <<>>
             /\ rawOutcome' = "threw"
             /\ ret' = NoRet
             /\ UNCHANGED stack
        ELSE /\ cont' = Tail(cont)
             /\ stack' = IF listenersByName[e].nextId = 0 THEN stack
                         ELSE <<NewFrame("trigger", "widget", e, step.args, listenersByName)>>
             /\ rawOutcome' = IF stack' = <<>> /\ cont' = <<>> THEN "returned" ELSE "none"
             /\ ret' = [op |-> "dispatch", key |-> e, id |-> 0, arg |-> 0,
                        outcome |-> "call", value |-> step.args]
  /\ playerLog' = <<>> /\ dispatched' = <<>>
  /\ raised' = 0 /\ UNCHANGED <<peers, missed, hasBody>>
  /\ UNCHANGED <<impl, ytAvailable, injected, pendingThrows, origReady>>
  /\ UNCHANGED <<phaseB, optionsB, listenersByName, readyArguments, stateId, autoPlayB,
                 alreadyCalled, acts>>

\* ------------------------------------------- part_000: the transport methods
\* the methods that pass one call on to the widget, lines 71-148 and 216-260:
\* the widget's method each of them calls
Forwarding ==
  [play |-> "playVideo", pause |-> "pauseVideo", stop |-> "stopVideo", next |-> "nextVideo",
   previous |-> "previousVideo", seekTo |-> "seekTo", mute |-> "mute", unmute |-> "unMute",
   getVolume |-> "getVolume", isMuted |-> "isMuted"]
\* of these, the ones that return what the widget returned, not this
Getters == {"getVolume", "isMuted"}
TransportKeys == DOMAIN Forwarding \cup {"setVolume"}
BoolStr(b) == IF b THEN "true" ELSE "false"
Returned(key, value) ==
  [op |-> "call", key |-> key, id |-> 0, arg |-> 0, outcome |-> "return", value |-> value]

\* the calls of the widget a transport method makes
TransportCalls(key) ==
  IF key = "setVolume"
  THEN <<PlayerCall("getVolume", <<>>), PlayerCall("setVolume", <<"newVolume">>)>>
  ELSE IF key = "seekTo" THEN <<PlayerCall("seekTo", <<"seconds">>)>>
  ELSE <<PlayerCall(Forwarding[key], <<>>)>>
TransportValue(key) ==
  IF key = "setVolume" THEN "getVolume()"
  ELSE IF key \in Getters THEN Forwarding[key] \o "()"
  ELSE "this"

\* the rest of the facade is left as it is by a method that only calls the widget
TransportFrame ==
  /\ UNCHANGED varsA
  /\ dispatched' = <<>> /\ rawOutcome' = "none" /\ raised' = 0
  /\ UNCHANGED <<impl, ytAvailable, injected, pendingThrows, origReady, peers, missed, hasBody>>
  /\ acts' = 0
  /\ UNCHANGED <<phaseB, optionsB, readyArguments, stateId, alreadyCalled, stack, cont>>

\* ---- play(), pause(), ..., setVolume(newVolume): this._player is used as it is
TransportB(key) ==
  /\ impl = FileB /\ TaskStart
  /\ phaseB \in {"constructed", "ready"}
  /\ playerLog' = TransportCalls(key)
  /\ ret' = Returned(key, TransportValue(key))
  /\ UNCHANGED <<listenersByName, autoPlayB, wrapperInBody, loopB, cueCalls>>
  /\ TransportFrame

\* ---- setLoop(loop), lines 44-48
SetLoopB(l) ==
  /\ impl = FileB /\ TaskStart
  /\ phaseB \in {"constructed", "ready"}
  /\ loopB' = l
  /\ playerLog' = <<PlayerCall("setLoop", <<BoolStr(l)>>)>>
  /\ ret' = Returned("setLoop", BoolStr(loopB))
  /\ UNCHANGED <<listenersByName, autoPlayB, wrapperInBody, cueCalls>>
  /\ TransportFrame

\* ---- cueItems(items), lines 158-165, and cueShuffledItems(items), lines 175-182,
\* which calls setLoop of the widget and then cueItems
CueItemsB(shuffled) ==
  /\ impl = FileB /\ TaskStart
  /\ phaseB \in {"constructed", "ready"}
  /\ ~autoPlayB \/ listenersByName["cued"].nextId <= MaxRegs
  /\ listenersByName' = CueItemsReg(listenersByName, autoPlayB)
  /\ playerLog' = (IF shuffled THEN <<PlayerCall("setLoop", <<"loop">>)>> ELSE <<>>)
                    \o CueItemsCalls
  /\ ret' = Returned(IF shuffled THEN "cueShuffledItems" ELSE "cueItems", "this")
  /\ cueCalls' = CueCalled(cueCalls, autoPlayB)
  /\ UNCHANGED <<autoPlayB, wrapperInBody, loopB>>
  /\ TransportFrame

\* ---- destroy(), lines 276-285
DestroyB ==
  /\ impl = FileB /\ TaskStart
  /\ phaseB \in {"constructed", "ready"}
  /\ IF wrapperInBody
     THEN /\ playerLog' = <<PlayerCall("stopVideo", <<>>)>>
          /\ wrapperInBody' = FALSE
          /\ ret' = Returned("destroy", "true")
     ELSE /\ playerLog' = <<>>
          /\ UNCHANGED wrapperInBody
          /\ ret' = Returned("destroy", "false")
  /\ UNCHANGED <<listenersByName, autoPlayB, loopB, cueCalls>>
  /\ TransportFrame

\* ---- setAutoPlay(newAutoPlay), lines 193-197
SetAutoPlayB(newAutoPlay) ==
  /\ impl = FileB /\ TaskStart
  /\ phaseB \in {"constructed", "ready"}
  /\ autoPlayB' = newAutoPlay
  /\ playerLog' = <<>>
  /\ ret' = Returned("setAutoPlay", BoolStr(autoPlayB))
  /\ UNCHANGED <<listenersByName, wrapperInBody, loopB, cueCalls>>
  /\ TransportFrame

\* ------------------------------------------- YouTubeAudio.js: values
Null == "null"
Undef == [t |-> "undefined"]
Bool(b) == [t |-> "boolean", b |-> b]
Array(a) == [t |-> "array", a |-> a]
ErrorOf(message) == [t |-> "Error", message |-> message]
TypeError == [t |-> "TypeError"]

IdNames == <<"a1", "a2", "a3", "a4">>
Forms == <<"bare", "watch", "youtu.be", "bare">>
\* a source is a bare identifier, a watch?v= URL or a youtu.be URL
Sources(n) == [i \in 1 .. n |-> [form |-> Forms[i], id |-> IdNames[i]]]
SourceLists == {Sources(n) : n \in 1 .. MaxLen}

\* parseVideoId(source), lines 286-288: the v= parameter, the youtu.be path,
\* or the string itself when the pattern does not match
parseVideoId(source) ==
  CASE source.form = "watch" -> source.id
    [] source.form = "youtu.be" -> source.id
    [] OTHER -> source.id
Map(f(_), list) == [i \in DOMAIN list |-> f(list[i])]

\* a sort that fills the array with elements of the list, each at least once
ShufflesOntoRange(list) ==
  {p \in [DOMAIN list -> Range(list)] : \A x \in Range(list) : \E i \in DOMAIN list : p[i] = x}
\* Array.prototype.sort with a comparator that answers at random (lines 54-58):
\* the order is the engine's choice; the engines sort by moving the elements
Shuffles(list) ==
  LET Rearrangements == {r \in [DOMAIN list -> DOMAIN list] :
                           \A i \in DOMAIN list : \E j \in DOMAIN list : r[j] = i}
  IN {[i \in DOMAIN list |-> list[r[i]]] : r \in Rearrangements}

\* the lists the page shuffles: sources may repeat
ShuffleSources == {Sources(2)[1], Sources(2)[2]}
ShuffleInputs == UNION {[1 .. n -> ShuffleSources] : n \in 1 .. MaxLen}
OptionsS ==
  [sources : ShuffleInputs, shuffle : {TRUE}, loop : {TRUE}, logEarlyCalls : {FALSE}]

OptionsA ==
  [sources : {Sources(MaxLen)}, shuffle : {FALSE}, loop : BOOLEAN, logEarlyCalls : BOOLEAN]

\* the keys of the prototype (lines 112-229, 231-282) that the model follows
PrototypeKeys ==
  {"init", "getVideoId", "setSources", "playNext", "playPrevious", "restart",
   "onPlaying", "onPause", "onStart", "onEnd", "onStateChange", "onReady",
   "play", "getIsReady"}
\* a test that lets every getter through: /^(init$|get|on[A-Z])/
ExemptGetters(key) ==
  key \in {"init", "getVideoId", "getIsReady", "onPlaying", "onPause", "onStart", "onEnd",
           "onStateChange", "onReady"}
\* /^(init$|getVideoId$|on[A-Z])/.test(key), line 189
Exempt(key) ==
  key \in {"init", "getVideoId", "onPlaying", "onPause", "onStart", "onEnd",
           "onStateChange", "onReady"}
GuardedKeys == {key \in PrototypeKeys : ~Exempt(key)}
CbNames == {"ready", "playing", "pause", "start", "end", "stateChange"}
CodesA == {PlayerState.PLAYING, PlayerState.PAUSED, PlayerState.ENDED, PlayerState.BUFFERING}
\* what the widget answers for the video it plays
ReportedIds == {IdNames[1], IdNames[2]}

\* the % of the language: the remainder has the sign of the dividend
JsRem(a, b) == IF a >= 0 THEN a % b ELSE -((-a) % b)
\* a faulty variant of mod, which keeps the sign of a
modTruncating(a, b) == JsRem(a, b)
\* mod(a, b), lines 8-10
mod(a, b) == JsRem(JsRem(a, b) + b, b)

\* this._videoIds[this._index], line 127
GetVideoIdOf(ids, i) == IF i + 1 \in DOMAIN ids THEN ids[i + 1] ELSE "undefined"

\* 'The ' + key + '() function cannot be called yet.', line 196
EarlyMessage(key) == <<"The ", key, "() function cannot be called yet.">>

\* ------------------------------------------- YouTubeAudio.js: the facade
\* the instance while one task runs; log, runs, console, dispatched, outcome and
\* value describe what the task has done so far
Instance ==
  [isReady |-> isReady, videoIds |-> videoIds, index |-> index, guards |-> guards,
   callbacks |-> callbacks, currentVideoId |-> currentVideoId, timers |-> pendingThrows,
   log |-> <<>>, runs |-> <<>>, console |-> <<>>, dispatched |-> <<>>,
   outcome |-> "return", value |-> Undef]

Returns(m, key, args, value) ==
  [m EXCEPT !.outcome = "return", !.value = value,
            !.runs = Append(@, [key |-> key, args |-> args, value |-> value])]

\* the methods of the prototype: lines 126-147 and the generated play (232, 246-259)
\* and getIsReady (275-282)
Real(m, key, args) ==
  CASE key = "getVideoId" ->
         Returns(m, key, args, GetVideoIdOf(m.videoIds, m.index))
    [] key = "setSources" ->
         Returns([m EXCEPT !.videoIds = Map(parseVideoId, args[1])], key, args,
                 Array(m.videoIds))
    [] key = "playNext" ->
         LET i == mod(m.index + 1, Len(m.videoIds))
         IN Returns([m EXCEPT !.index = i,
                       !.log = Append(@, PlayerCall("loadVideoById",
                                                    <<GetVideoIdOf(m.videoIds, i)>>))],
                    key, args, Undef)
    [] key = "playPrevious" ->
         LET i == mod(m.index - 1, Len(m.videoIds))
         IN Returns([m EXCEPT !.index = i,
                       !.log = Append(@, PlayerCall("loadVideoById",
                                                    <<GetVideoIdOf(m.videoIds, i)>>))],
                    key, args, Undef)
    [] key = "restart" ->
         Returns([m EXCEPT !.log = Append(@, PlayerCall("loadVideoById",
                                            <<GetVideoIdOf(m.videoIds, m.index)>>))],
                 key, args, Undef)
    [] key = "play" ->
         Returns([m EXCEPT !.log = Append(@, PlayerCall("playVideo", args))],
                 key, args, Undef)
    [] key = "getIsReady" ->
         Returns(m, key, args, Bool(m.isReady))

\* faulty variants of the guard, which the claims about it must tell from it:
\* one that takes the instance for ready, one that reads logEarlyCalls the wrong
\* way round, one that leaves the guard in place
IsReadyTestAlways(ready) == TRUE
EarlySwapped(m, key, logEarlyCalls) ==
  IF logEarlyCalls
  THEN [m EXCEPT !.outcome = "throw", !.value = ErrorOf(EarlyMessage(key))]
  ELSE [m EXCEPT !.console = Append(@, EarlyMessage(key)), !.outcome = "return",
                 !.value = Undef]
UnguardNot(g, key) == g

\* if (self._isReady), line 191
IsReadyTest(ready) == ready
\* if (options.logEarlyCalls) console.error(message) else throw, lines 197-202
Early(m, key, logEarlyCalls) ==
  IF logEarlyCalls
  THEN [m EXCEPT !.console = Append(@, EarlyMessage(key)), !.outcome = "return",
                 !.value = Undef]
  ELSE [m EXCEPT !.outcome = "throw", !.value = ErrorOf(EarlyMessage(key))]
\* delete self[key], line 192
Unguard(g, key) == g \ {key}

\* instance[key](args): the guard of lines 190-203 while it is an own property,
\* the method of the prototype otherwise
CallKey(m, key, args) ==
  IF key \in m.guards
  THEN IF IsReadyTest(m.isReady)
       THEN Real([m EXCEPT !.guards = Unguard(@, key)], key, args)
       ELSE Early(m, key, optionsA.logEarlyCalls)
  ELSE Real(m, key, args)

\* what the callbacks of one dispatch do: those in throws raise an exception,
\* those in subs subscribe one more callback to the event being dispatched
Behaviours(n) ==
  {b \in [throws : SUBSET (1 .. n), subs : SUBSET (1 .. n)] : b.throws \cap b.subs = {}}
Acts(b) == Cardinality(b.throws) + Cardinality(b.subs)
Quiet == [throws |-> {}, subs |-> {}]

\* a faulty variant of the catch clause, which drops the exception
CatchASwallow(timers) == timers

\* (this._xCallbacks = this._xCallbacks || []).push(callback), lines 156-170, 176
Push(cbs, name, h) == [cbs EXCEPT ![name] = Append(@, h)]
\* catch (e) { setTimeout(function() { throw e; }, 0); }, lines 44-46
CatchA(timers) == timers + 1
\* Array.prototype.forEach: the indices below the length the list had at the start
ForEachOrder(n) == [i \in 1 .. n |-> i]

RECURSIVE ForEachA(_, _, _, _, _)
ForEachA(m, name, order, b, d) ==
  IF order = <<>> THEN [m EXCEPT !.dispatched = Append(@, d)]
  ELSE LET i  == Head(order)
           t  == IF i \in b.throws THEN CatchA(m.timers) ELSE m.timers
           m1 == [m EXCEPT !.timers = t,
                           !.callbacks = IF i \in b.subs /\ ~(name = "ready" /\ m.isReady)
                                         THEN Push(@, name, "h1") ELSE @]
       IN ForEachA(m1, name, Tail(order), b,
                   [d EXCEPT !.called = Append(@, i),
                             !.threw = IF i \in b.throws THEN @ \cup {i} ELSE @,
                             !.sched = @ + (t - m.timers)])

\* triggerHandlers(yta, name, event), lines 38-48
triggerHandlers(m, name, b) ==
  LET n == Len(m.callbacks[name])
  IN ForEachA(m, name, ForEachOrder(n), b,
              [file |-> FileA, e |-> name, live0 |-> 1 .. n, spent0 |-> {}, called |-> <<>>,
               dead |-> {}, threw |-> {}, sched |-> 0, outcome |-> "returned",
               pure |-> b.subs = {} \/ name = "ready"])

Subscribed(cbs) == Len(cbs["ready"]) + Len(cbs["playing"]) + Len(cbs["pause"])
                   + Len(cbs["start"]) + Len(cbs["end"]) + Len(cbs["stateChange"])
\* the behaviours open to the callbacks of event name when the task may still
\* do budget things besides returning
BehavioursFor(m, name, budget) ==
  {b \in Behaviours(Len(m.callbacks[name])) :
     /\ Acts(b) <= budget
     /\ Subscribed(m.callbacks) + Cardinality(b.subs) <= MaxRegs}

\* the task is over: the instance and what the step has done become the state
Commit(m) ==
  /\ videoIds' = m.videoIds /\ index' = m.index /\ guards' = m.guards
  /\ callbacks' = m.callbacks /\ currentVideoId' = m.currentVideoId
  /\ isReady' = m.isReady
  /\ pendingThrows' = m.timers
  /\ playerLog' = m.log /\ realRuns' = m.runs /\ console' = m.console
  /\ dispatched' = m.dispatched
  /\ raised' = 0 /\ UNCHANGED <<peers, missed, hasBody>>
  /\ UNCHANGED <<impl, readyEvent, optionsA, loop, autoPlayA>>
  /\ UNCHANGED varsB

\* ---- application code calls instance[key](args)
CallA(key, args) ==
  /\ impl = FileA /\ pendingThrows = 0
  /\ IF key = "getVideoId" /\ phaseA # "constructed"
     THEN \* this._videoIds is null
          /\ ret' = [op |-> "call", key |-> key, id |-> 0, arg |-> args,
                     outcome |-> "throw", value |-> TypeError]
          /\ Commit(Instance)
     ELSE LET m == CallKey(Instance, key, args)
          IN /\ ret' = [op |-> "call", key |-> key, id |-> 0, arg |-> args,
                        outcome |-> m.outcome, value |-> m.value]
             /\ Commit(m)
  /\ rawOutcome' = "none"
  /\ UNCHANGED <<ytAvailable, injected, origReady>>
  /\ UNCHANGED <<phaseA, docReady, YouTube, isLoadingYTScript>>

\* a faulty variant of the instance's own init, which sets the guards up again
InitOwnAgain(m) == [m EXCEPT !.guards = GuardedKeys]
\* self.init = function() { throw new Error(...) }, lines 185-187
InitMessage == <<"This object's init() function was already called.">>
InitOwn(m) == [m EXCEPT !.outcome = "throw", !.value = ErrorOf(InitMessage)]

\* ---- application code calls instance.init() (the constructor has called it)
InitAgainA ==
  /\ impl = FileA /\ pendingThrows = 0
  /\ LET m == InitOwn(Instance)
     IN /\ ret' = [op |-> "call", key |-> "init", id |-> 0, arg |-> <<>>,
                   outcome |-> m.outcome, value |-> m.value]
        /\ Commit(m)
  /\ rawOutcome' = "none"
  /\ UNCHANGED <<ytAvailable, injected, origReady>>
  /\ UNCHANGED <<phaseA, docReady, YouTube, isLoadingYTScript>>

\* ---- onPlaying, onPause, onStart, onEnd, onStateChange (lines 156-170) and
\* ---- onReady (lines 171-179); threw says whether a callback invoked at once raises
OnA(name, h, threw) ==
  /\ impl = FileA /\ pendingThrows = 0
  /\ IF name = "ready" /\ isReady
     THEN /\ ret' = [op |-> "subscribe", key |-> name, id |-> 0, arg |-> <<readyEvent>>,
                     outcome |-> IF threw THEN "throw" ELSE "return",
                     value |-> IF threw THEN ErrorOf(h) ELSE Bool(isReady)]
          /\ Commit(Instance)
     ELSE /\ ~threw
          /\ Subscribed(callbacks) < MaxRegs
          /\ ret' = [op |-> "subscribe", key |-> name, id |-> 0, arg |-> <<>>,
                     outcome |-> "return",
                     value |-> IF name = "ready" THEN Bool(isReady) ELSE Undef]
          /\ Commit([Instance EXCEPT !.callbacks = Push(@, name, h)])
  /\ rawOutcome' = "none"
  /\ UNCHANGED <<ytAvailable, injected, origReady>>
  /\ UNCHANGED <<phaseA, docReady, YouTube, isLoadingYTScript>>

\* ---- events.onReady of the widget, lines 83-86
WidgetReadyA(event) ==
  /\ impl = FileA /\ pendingThrows = 0
  /\ phaseA = "constructed" /\ ~isReady
  /\ \E b \in BehavioursFor(Instance, "ready", MaxActs) :
       Commit(triggerHandlers([Instance EXCEPT !.isReady = TRUE], "ready", b))
  /\ origReady' = event
  /\ ret' = NoRet /\ rawOutcome' = "returned"
  /\ UNCHANGED <<ytAvailable, injected>>
  /\ UNCHANGED <<phaseA, docReady, YouTube, isLoadingYTScript>>

\* a faulty variant of the test below, which never advances
LoopTestNever(l) == FALSE
\* if (yta._loop), line 100
LoopTest(l) == l

\* the event of lines 88-103 for a state code, "" when the code has none
FirstEvent(code) ==
  CASE code = PlayerState.PLAYING -> "playing"
    [] code = PlayerState.PAUSED -> "pause"
    [] code = PlayerState.ENDED -> "end"
    [] OTHER -> ""

\* ---- events.onStateChange of the widget, lines 87-107; videoId is what
\* ---- getVideoData().video_id answers
\* a callback that takes every PLAYING notification for the start of a video
StartTestAlways(newVideoId, current) == TRUE
\* newVideoId !== currentVideoId, line 91
StartTest(newVideoId, current) == newVideoId # current

WidgetStateChangeA(code, videoId) ==
  /\ impl = FileA /\ pendingThrows = 0
  /\ phaseA = "constructed"
  /\ LET e1 == FirstEvent(code)
     IN \E b1 \in IF e1 = "" THEN {Quiet} ELSE BehavioursFor(Instance, e1, MaxActs) :
        LET m1 == IF e1 = "" THEN Instance ELSE triggerHandlers(Instance, e1, b1)
            starts == code = PlayerState.PLAYING /\ StartTest(videoId, m1.currentVideoId)
        IN \E b2 \in IF starts THEN BehavioursFor(m1, "start", MaxActs - Acts(b1))
                     ELSE {Quiet} :
           LET m2 == IF starts
                     THEN triggerHandlers([m1 EXCEPT !.currentVideoId = videoId], "start", b2)
                     ELSE IF code = PlayerState.ENDED /\ LoopTest(loop)
                     THEN CallKey(m1, "playNext", <<>>)
                     ELSE m1
           IN IF m2.outcome = "throw"
              THEN \* the exception of the guard leaves the callback
                   /\ Commit(m2)
                   /\ rawOutcome' = "threw"
              ELSE \E b3 \in BehavioursFor(m2, "stateChange", MaxActs - Acts(b1) - Acts(b2)) :
                     /\ Commit(triggerHandlers(m2, "stateChange", b3))
                     /\ rawOutcome' = "returned"
  /\ ret' = [op |-> "notify", key |-> videoId, id |-> 0, arg |-> code, outcome |-> "none",
             value |-> ""]
  /\ UNCHANGED <<ytAvailable, injected, origReady>>
  /\ UNCHANGED <<phaseA, docReady, YouTube, isLoadingYTScript>>

\* addAudio(yta, options), lines 50-66: the values this._videoIds can get
AddAudioIds(options) ==
  LET ids == Map(parseVideoId, options.sources)
  IN IF options.shuffle THEN Shuffles(ids) ELSE {ids}

\* lines 62-65: options.autoPlay is not given, so this._autoPlay becomes true
AddAudioAutoPlay == Bool(TRUE)
\* yta._loop = !!options.loop, line 60 (false while it is undefined)
AddAudioLoop(options) == options.loop

\* a faulty variant of the callback below, which does not look at the flag
InnerPollNoFlag(yt, have, loading) ==
  IF have \/ yt
  THEN [phase |-> "constructed", YouTube |-> TRUE, loading |-> loading, inject |-> 0,
        missed |-> FALSE]
  ELSE [phase |-> "pollYT", YouTube |-> FALSE, loading |-> TRUE, inject |-> 1,
        missed |-> TRUE]

\* the inner callUntil callback of init(), lines 208-224
\* (missed: the callback looked for the widget API and did not find it)
InnerPoll(yt, have, loading) ==
  IF have \/ yt
  THEN [phase |-> "constructed", YouTube |-> TRUE, loading |-> loading, inject |-> 0,
        missed |-> FALSE]
  ELSE [phase |-> "pollYT", YouTube |-> FALSE, loading |-> TRUE,
        inject |-> IF loading THEN 0 ELSE 1, missed |-> TRUE]
\* the outer callUntil callback of init(), lines 206-227
OuterPoll(doc, yt, have, loading) ==
  IF doc THEN InnerPoll(yt, have, loading)
  ELSE [phase |-> "pollDoc", YouTube |-> have, loading |-> loading, inject |-> 0,
        missed |-> FALSE]

\* ---- a timer of callUntil(..., 50) runs (lines 28-36)
PollA ==
  /\ impl = FileA /\ pendingThrows = 0
  /\ phaseA \in {"pollDoc", "pollYT"}
  /\ LET r == IF phaseA = "pollDoc"
              THEN OuterPoll(docReady, ytAvailable, YouTube, isLoadingYTScript)
              ELSE InnerPoll(ytAvailable, YouTube, isLoadingYTScript)
     IN /\ phaseA' = r.phase /\ YouTube' = r.YouTube /\ isLoadingYTScript' = r.loading
        /\ injected' = injected + r.inject
        /\ videoIds' \in (IF r.phase = "constructed" THEN AddAudioIds(optionsA) ELSE {videoIds})
        /\ autoPlayA' = IF r.phase = "constructed" THEN AddAudioAutoPlay ELSE autoPlayA
        /\ loop' = IF r.phase = "constructed" THEN AddAudioLoop(optionsA) ELSE loop
        /\ missed' = (missed \/ r.missed)
  /\ playerLog' = <<>> /\ ret' = NoRet /\ dispatched' = <<>> /\ rawOutcome' = "none"
  /\ raised' = 0 /\ realRuns' = <<>> /\ console' = <<>> /\ UNCHANGED <<peers, hasBody>>
  /\ UNCHANGED <<impl, ytAvailable, pendingThrows, origReady>>
  /\ UNCHANGED <<optionsA, docReady, isReady, readyEvent, index, guards, callbacks,
                 currentVideoId>>
  /\ UNCHANGED varsB

\* ---- the document finishes loading
DocLoads ==
  /\ impl = FileA /\ pendingThrows = 0
  /\ ~docReady
  /\ docReady' = TRUE /\ hasBody' = TRUE
  /\ playerLog' = <<>> /\ ret' = NoRet /\ dispatched' = <<>> /\ rawOutcome' = "none"
  /\ raised' = 0 /\ realRuns' = <<>> /\ console' = <<>> /\ UNCHANGED <<peers, missed>>
  /\ UNCHANGED <<impl, ytAvailable, injected, pendingThrows, origReady>>
  /\ UNCHANGED <<phaseA, optionsA, YouTube, isLoadingYTScript, isReady, readyEvent, videoIds,
                 index, loop, autoPlayA, guards, callbacks, currentVideoId>>
  /\ UNCHANGED varsB

\* the keys the application calls and the arguments it passes
AppKeys == {"play", "playNext", "playPrevious", "setSources", "getVideoId"}
ArgsOf(key) == IF key = "setSources" THEN {<<l>> : l \in SourceLists} ELSE {<<>>}

\* YouTubeAudio.parseVideoId(urlOrId), lines 431-436: the path of a youtu.be
\* URL, the v= parameter that ends a URL, or the identifier itself
parseVideoIdB(urlOrId) ==
  CASE urlOrId.form = "youtu.be" -> urlOrId.id
    [] urlOrId.form = "watch" -> urlOrId.id
    [] OTHER -> urlOrId.id
\* Array.prototype.splice(k, 0, x): x is put in front of the element at index k
Splice(list, k, x) == SubSeq(list, 1, k) \o <<x>> \o SubSeq(list, k + 1, Len(list))
\* Math.round(Math.random() * i): Math.random() is in [0, 1)
RandomIndex(i) == 0 .. i
\* the loop of cueShuffledItems, lines 176-179: the values indices can end with
\* when the loop is at i with the array indices
RECURSIVE ShuffledIndices(_, _, _)
ShuffledIndices(i, l, indices) ==
  IF i >= l THEN {indices}
  ELSE UNION {ShuffledIndices(i + 1, l, Splice(indices, k, i)) : k \in RandomIndex(i)}
\* indices.map(i => items[i]), line 181
ShuffledItems(items) ==
  {[j \in 1 .. Len(items) |-> items[indices[j] + 1]] :
     indices \in ShuffledIndices(0, Len(items), <<>>)}

\* ---- cueShuffledItems(items), lines 175-182 and 158-165, with the list that
\* reaches the widget
CueShuffledListB(items) ==
  /\ impl = FileB /\ TaskStart
  /\ phaseB \in {"constructed", "ready"}
  /\ ~autoPlayB \/ listenersByName["cued"].nextId <= MaxRegs
  /\ listenersByName' = CueItemsReg(listenersByName, autoPlayB)
  /\ \E shuffled \in ShuffledItems(items) :
       playerLog' = <<PlayerCall("setLoop", <<BoolStr(loopB)>>),
                      PlayerCall("cuePlaylist", <<Map(parseVideoIdB, shuffled)>>),
                      PlayerCall("setLoop", <<BoolStr(loopB)>>)>>
  /\ ret' = [Returned("cueShuffledItems", "this") EXCEPT !.arg = items]
  /\ cueCalls' = CueCalled(cueCalls, autoPlayB)
  /\ UNCHANGED <<autoPlayB, wrapperInBody, loopB>>
  /\ TransportFrame

\* ------------------------------------------- further instances in the page
\* loadYT(), part_000 lines 502-509: the script element is inserted unless
\* loadYT.alreadyCalled is set
LoadYT(already) == [alreadyCalled |-> TRUE, inject |-> IF already THEN 0 ELSE 1]
\* the constructor of part_000, lines 22-33: the first try of callUntil, then
\* loadYT() if it did not work
ConstructB(yt, body, already) ==
  LET r == PollOutcomeB(yt, body)
  IN IF r.phase = "constructed"
     THEN [phase |-> r.phase, alreadyCalled |-> already, inject |-> 0, missed |-> FALSE,
           throws |-> 0]
     ELSE [phase |-> r.phase, alreadyCalled |-> LoadYT(already).alreadyCalled,
           inject |-> LoadYT(already).inject, missed |-> ~yt, throws |-> r.throws]

\* what a step of a further instance leaves alone: the instance the model follows
PeerFrame ==
  /\ playerLog' = <<>> /\ ret' = NoRet /\ dispatched' = <<>> /\ rawOutcome' = "none"
  /\ raised' = 0 /\ realRuns' = <<>> /\ console' = <<>>
  /\ UNCHANGED <<impl, ytAvailable, origReady>>
  /\ UNCHANGED <<phaseB, optionsB, listenersByName, readyArguments, stateId, autoPlayB,
                 stack, cont, acts, wrapperInBody, loopB, cueCalls>>
  /\ UNCHANGED <<phaseA, optionsA, docReady, isReady, readyEvent, videoIds, index, loop,
                 autoPlayA, guards, callbacks, currentVideoId>>

\* ---- the page constructs one more YouTubeAudio (YouTubeAudio.js lines 1-3, 180-228)
NewPeerA ==
  /\ impl = FileA /\ TaskStart /\ Len(peers) < MaxPeers
  /\ LET r == OuterPoll(docReady, ytAvailable, YouTube, isLoadingYTScript)
     IN /\ peers' = Append(peers, r.phase)
        /\ YouTube' = r.YouTube /\ isLoadingYTScript' = r.loading
        /\ injected' = injected + r.inject
        /\ missed' = (missed \/ r.missed)
  /\ UNCHANGED <<alreadyCalled, pendingThrows, hasBody>>
  /\ PeerFrame

\* ---- a callUntil timer of a further instance runs (YouTubeAudio.js lines 28-36)
PollPeerA(i) ==
  /\ impl = FileA /\ TaskStart /\ i \in DOMAIN peers
  /\ peers[i] \in {"pollDoc", "pollYT"}
  /\ LET r == IF peers[i] = "pollDoc"
              THEN OuterPoll(docReady, ytAvailable, YouTube, isLoadingYTScript)
              ELSE InnerPoll(ytAvailable, YouTube, isLoadingYTScript)
     IN /\ peers' = [peers EXCEPT ![i] = r.phase]
        /\ YouTube' = r.YouTube /\ isLoadingYTScript' = r.loading
        /\ injected' = injected + r.inject
        /\ missed' = (missed \/ r.missed)
  /\ UNCHANGED <<alreadyCalled, pendingThrows, hasBody>>
  /\ PeerFrame

\* ---- the page constructs one more YouTubeAudio (part_000 lines 14-34)
NewPeerB ==
  /\ impl = FileB /\ TaskStart /\ Len(peers) < MaxPeers
  /\ LET r == ConstructB(ytAvailable, hasBody, alreadyCalled)
     IN /\ peers' = Append(peers, r.phase)
        /\ alreadyCalled' = r.alreadyCalled
        /\ injected' = injected + r.inject
        /\ missed' = (missed \/ r.missed)
        /\ pendingThrows' = pendingThrows + r.throws
  /\ UNCHANGED <<YouTube, isLoadingYTScript, hasBody>>
  /\ PeerFrame

\* ---- the callUntil timer of a further instance runs (part_000 lines 404-420)
PollPeerB(i) ==
  /\ impl = FileB /\ TaskStart /\ i \in DOMAIN peers
  /\ peers[i] = "polling"
  /\ LET r == PollOutcomeB(ytAvailable, hasBody)
     IN /\ peers' = [peers EXCEPT ![i] = r.phase]
        /\ pendingThrows' = pendingThrows + r.throws
  /\ missed' = (missed \/ ~ytAvailable)
  /\ UNCHANGED <<YouTube, isLoadingYTScript, alreadyCalled, injected, hasBody>>
  /\ PeerFrame

\* ---- the parser has created document.body, which it has done at the latest
\* when document.readyState becomes 'interactive'
BodyParsed ==
  /\ impl = FileB /\ TaskStart
  /\ ~hasBody
  /\ hasBody' = TRUE
  /\ UNCHANGED <<YouTube, isLoadingYTScript, alreadyCalled, injected, pendingThrows,
                 peers, missed>>
  /\ PeerFrame

\* ------------------------------------------------------------ specification
InitShared ==
  /\ ytAvailable \in BOOLEAN
  /\ raised = 0
  /\ playerLog = <<>> /\ ret = NoRet /\ dispatched = <<>>
  /\ origReady = NoArgs /\ rawOutcome = "none"
  /\ peers = <<>>

\* the variables of the file the page has not loaded
IdleA ==
  /\ phaseA = "" /\ optionsA = [sources |-> <<>>] /\ docReady = FALSE /\ YouTube = FALSE
  /\ isLoadingYTScript = FALSE /\ isReady = FALSE /\ readyEvent = Null /\ videoIds = <<>>
  /\ index = 0 /\ loop = FALSE /\ autoPlayA = Undef /\ guards = {}
  /\ callbacks = [n \in CbNames |-> <<>>]
  /\ currentVideoId = Null /\ realRuns = <<>> /\ console = <<>>
IdleB ==
  /\ phaseB = "" /\ optionsB = [items |-> FALSE] /\ listenersByName = [e \in EventNames |-> NoEntry]
  /\ readyArguments = NoArgs /\ stateId = <<>> /\ autoPlayB = FALSE /\ alreadyCalled = FALSE
  /\ stack = <<>> /\ cont = <<>> /\ acts = 0
  /\ wrapperInBody = FALSE /\ loopB = FALSE /\ cueCalls = NoCueCalls

\* the state once new YouTubeAudio(options) has returned (lines 1-3, 180-228)
InitWith(Options) ==
  /\ impl = FileA
  /\ IdleB
  /\ InitShared
  /\ pendingThrows = 0
  /\ optionsA \in Options
  /\ docReady \in BOOLEAN
  /\ LET r == OuterPoll(docReady, ytAvailable, FALSE, FALSE)
     IN /\ phaseA = r.phase /\ YouTube = r.YouTube /\ isLoadingYTScript = r.loading
        /\ injected = r.inject /\ missed = r.missed /\ hasBody = docReady
        /\ videoIds \in (IF r.phase = "constructed" THEN AddAudioIds(optionsA) ELSE {<<>>})
        /\ autoPlayA = IF r.phase = "constructed" THEN AddAudioAutoPlay ELSE Undef
        /\ loop = IF r.phase = "constructed" THEN AddAudioLoop(optionsA) ELSE FALSE
  /\ isReady = FALSE /\ readyEvent = Null /\ index = 0
  /\ guards = GuardedKeys
  /\ callbacks = [n \in CbNames |-> <<>>]
  /\ currentVideoId = Null /\ realRuns = <<>> /\ console = <<>>
InitA == InitWith(OptionsA)

\* the facade's methods, from construction on
NextA ==
  \/ \E key \in AppKeys : \E args \in ArgsOf(key) : CallA(key, args)
  \/ InitAgainA
  \/ \E h \in Handlers, threw \in BOOLEAN : OnA("ready", h, threw)
  \/ \E event \in Payloads : WidgetReadyA(event)
  \/ \E code \in {PlayerState.ENDED, PlayerState.PAUSED} : WidgetStateChangeA(code, IdNames[1])
  \/ PollA
  \/ DocLoads
  \/ ScriptLoads
  \/ TimerThrow

SpecA == InitA /\ [][NextA]_vars

\* the dispatches of a facade whose widget exists
InitD == InitA /\ phaseA = "constructed" /\ ~optionsA.logEarlyCalls
NextD ==
  \/ \E name \in CbNames, h \in Handlers : OnA(name, h, FALSE)
  \/ \E event \in Payloads : WidgetReadyA(event)
  \/ \E code \in CodesA, videoId \in ReportedIds : WidgetStateChangeA(code, videoId)
  \/ TimerThrow

\* the state once new YouTubeAudio(options) has returned (lines 14-34)
InitB ==
  /\ impl = FileB
  /\ IdleA
  /\ InitShared
  /\ optionsB \in OptionsB
  /\ autoPlayB = optionsB.autoPlay
  /\ readyArguments = NoArgs
  /\ stateId = <<>>
  /\ stack = <<>> /\ cont = <<>> /\ acts = 0
  /\ ytAvailable
  /\ phaseB = "constructed"
  /\ listenersByName = ConstructYTA([e \in EventNames |-> NoEntry], optionsB)
  /\ alreadyCalled = FALSE /\ injected = 0 /\ missed = FALSE /\ pendingThrows = 0
  /\ wrapperInBody = TRUE /\ loopB = FALSE /\ hasBody = TRUE /\ cueCalls = NoCueCalls

NextB ==
  \/ \E e \in RegEvents, h \in Handlers, limit \in Limits : On(e, h, limit)
  \/ \E listenerId \in Handles : Off(listenerId)
  \/ \E e \in EventNames : Trigger(e)
  \/ TriggerLoop
  \/ TriggerReturn
  \/ HandlerReturn
  \/ HandlerThrow
  \/ TimerThrow
  \/ \E payload \in Payloads : WidgetReadyB(payload)
  \/ ContinueRaw

SpecB == InitB /\ [][NextB]_vars

\* the page from the construction of its first instance on: loading and polling
InitLB ==
  /\ impl = FileB
  /\ IdleA
  /\ InitShared
  /\ optionsB \in OptionsB
  /\ autoPlayB = optionsB.autoPlay
  /\ readyArguments = NoArgs
  /\ stateId = <<>>
  /\ stack = <<>> /\ cont = <<>> /\ acts = 0
  /\ hasBody \in BOOLEAN
  /\ LET r == ConstructB(ytAvailable, hasBody, FALSE)
     IN /\ phaseB = r.phase /\ alreadyCalled = r.alreadyCalled
        /\ injected = r.inject /\ missed = r.missed
        /\ pendingThrows = r.throws
        /\ wrapperInBody = (r.phase = "constructed") /\ loopB = FALSE
        /\ cueCalls = NoCueCalls
        /\ listenersByName = IF r.phase = "polling"
                             THEN [e \in EventNames |-> NoEntry]
                             ELSE ConstructYTA([e \in EventNames |-> NoEntry], optionsB)
InitL == InitA \/ InitLB
NextL ==
  \/ NewPeerA
  \/ NewPeerB
  \/ \E i \in 1 .. MaxPeers : PollPeerA(i)
  \/ \E i \in 1 .. MaxPeers : PollPeerB(i)
  \/ PollA
  \/ PollB
  \/ DocLoads
  \/ BodyParsed
  \/ ScriptLoads
  \/ TimerThrow
SpecL == InitL /\ [][NextL]_vars
\* a timer that is set runs: the timers of callUntil and the ones that throw
SpecLF ==
  /\ SpecL
  /\ WF_vars(PollA) /\ WF_vars(PollB) /\ WF_vars(TimerThrow)
  /\ \A i \in 1 .. MaxPeers : WF_vars(PollPeerA(i)) /\ WF_vars(PollPeerB(i))

\* the facade of part_000 in use: its transport methods, destroy() and the
\* notifications of its widget
NextT ==
  \/ \E key \in TransportKeys : TransportB(key)
  \/ \E l \in BOOLEAN : SetLoopB(l)
  \/ \E shuffled \in BOOLEAN : CueItemsB(shuffled)
  \/ DestroyB
  \/ \E payload \in Payloads : WidgetReadyB(payload)
  \/ \E code \in CodesB : WidgetStateChangeB(code)
  \/ ContinueRaw
  \/ TriggerLoop
  \/ TriggerReturn
  \/ HandlerReturn
  \/ HandlerThrow
  \/ TimerThrow
SpecT == InitB /\ [][NextT]_vars

\* the notifications of the widget of part_000 and the listeners they reach
NextN ==
  \/ \E e \in RegEvents, h \in Handlers, limit \in Limits : On(e, h, limit)
  \/ \E payload \in Payloads : WidgetReadyB(payload)
  \/ \E code \in CodesB : WidgetStateChangeB(code)
  \/ ContinueRaw
  \/ TriggerLoop
  \/ TriggerReturn
  \/ HandlerReturn
  \/ HandlerThrow
  \/ TimerThrow
SpecN == InitB /\ [][NextN]_vars

\* cueItems(), setAutoPlay() and the notifications of the widget of part_000
NextC ==
  \/ \E shuffled \in BOOLEAN : CueItemsB(shuffled)
  \/ \E newAutoPlay \in BOOLEAN : SetAutoPlayB(newAutoPlay)
  \/ \E payload \in Payloads : WidgetReadyB(payload)
  \/ \E code \in CodesB : WidgetStateChangeB(code)
  \/ ContinueRaw
  \/ TriggerLoop
  \/ TriggerReturn
  \/ HandlerReturn
  \/ HandlerThrow
  \/ TimerThrow
SpecC == InitB /\ [][NextC]_vars

\* playlists made by shuffling: YouTubeAudio.js constructed with the shuffle
\* option and then in use, part_000 asked to cue a shuffled list
InitS == (InitWith(OptionsS) /\ phaseA = "constructed") \/ InitB
NextS ==
  \/ \E key \in AppKeys : \E args \in ArgsOf(key) : CallA(key, args)
  \/ \E event \in Payloads : WidgetReadyA(event)
  \/ WidgetStateChangeA(PlayerState.ENDED, IdNames[1])
  \/ \E items \in ShuffleInputs : CueShuffledListB(items)
SpecS == InitS /\ [][NextS]_vars

\* the readiness query of YouTubeAudio.js, from construction on
NextG ==
  \/ \E key \in {"getIsReady", "play", "playNext"} : CallA(key, <<>>)
  \/ \E event \in Payloads : WidgetReadyA(event)
  \/ PollA
  \/ DocLoads
  \/ ScriptLoads
SpecG == InitA /\ [][NextG]_vars

\* the dispatches of either file
Init == InitD \/ InitB
Next == NextD \/ NextB
Spec == Init /\ [][Next]_vars
\* ------------------------------------------------------------------ claims
\* a call of a guarded key that the application made while _isReady was false
EarlyCall == impl = FileA /\ ret.op = "call" /\ ret.key \in GuardedKeys /\ ~isReady
\* a call of a guarded key that the application made once _isReady was true
LateCall == impl = FileA /\ ret.op = "call" /\ ret.key \in GuardedKeys /\ isReady

\* C1: while _isReady is false no step of the facade calls a method of the player
\* or runs a guarded method of the prototype, and a call of a guarded key ends in
\* a thrown Error or in a message written with console.error
C1_NoPlayerCallBeforeReady ==
  (impl = FileA /\ ~isReady) =>
    /\ playerLog = <<>>
    /\ \A i \in DOMAIN realRuns : Exempt(realRuns[i].key)
    /\ EarlyCall => \/ ret.outcome = "throw" /\ ret.value.t = "Error"
                    \/ console # <<>>
\* play() called between the construction of the widget and its ready notification
C1_Witness ==
  EarlyCall /\ ret.key = "play" /\ phaseA = "constructed" /\ console # <<>>

\* C2: a call of a guarded key made before readiness throws the Error whose message
\* names the key when logEarlyCalls is not set, and writes that message and returns
\* undefined when it is set; either way the playlist, the index, the loop and
\* autoplay flags and the callback lists stay as they were
C2_EarlyCallOutcome ==
  [][EarlyCall' =>
       /\ EarlyMessage(ret'.key)[2] = ret'.key
       /\ IF optionsA.logEarlyCalls
          THEN ret'.outcome = "return" /\ ret'.value = Undef
               /\ console' = <<EarlyMessage(ret'.key)>>
          ELSE ret'.outcome = "throw" /\ ret'.value = ErrorOf(EarlyMessage(ret'.key))
               /\ console' = <<>>
       /\ UNCHANGED <<videoIds, index, loop, autoPlayA, callbacks>>]_vars
\* setSources() thrown back before the widget exists
C2_Witness ==
  EarlyCall /\ ret.key = "setSources" /\ ret.outcome = "throw" /\ phaseA # "constructed"

\* C3: once ready, a call of a guarded key runs the method of the prototype once,
\* with the caller's arguments, and returns what it returned; the call leaves the
\* key without its guard, guards go away only when ready and never come back
C3_LateCallRunsReal ==
  [][/\ LateCall' =>
          /\ ret'.outcome = "return"
          /\ realRuns' = <<[key |-> ret'.key, args |-> ret'.arg, value |-> ret'.value]>>
          /\ ret'.key \notin guards'
     /\ impl = FileA => guards' \subseteq guards /\ (guards' # guards => isReady')]_vars
\* a second setSources() after readiness: its guard went away with the first
C3_Witness ==
  LateCall /\ ret.key = "setSources" /\ ret.value = Array(Map(parseVideoId, Sources(1)))
  /\ ret.arg = <<Sources(MaxLen)>> /\ videoIds = Map(parseVideoId, Sources(MaxLen))
\* C6: onReady(callback) called after the widget's ready notification calls the
\* callback at once with the event object of that notification and returns true
C6_LateOnReadyGetsPayload ==
  (impl = FileA /\ ret.op = "subscribe" /\ ret.key = "ready" /\ isReady
     /\ ret.outcome = "return") =>
    ret.arg = <<origReady>> /\ ret.value = Bool(TRUE)

\* C10: playNext sets the index to (index + 1) mod L and playPrevious to
\* (index - 1) mod L, L >= 1 being the length of the playlist: a value in 0 .. L-1,
\* 0 after L-1 and L-1 after 0; each then loads the identifier at the new index
C10_Wraparound ==
  [][\A i \in DOMAIN realRuns' :
       realRuns'[i].key \in {"playNext", "playPrevious"} =>
         LET L == Len(videoIds)
             next == realRuns'[i].key = "playNext"
         IN /\ L >= 1 /\ videoIds' = videoIds
            /\ index' \in 0 .. L - 1
            /\ index' = IF next THEN (index + 1) % L ELSE (index + L - 1) % L
            /\ (next /\ index = L - 1) => index' = 0
            /\ (~next /\ index = 0) => index' = L - 1
            /\ playerLog' = <<PlayerCall("loadVideoById", <<videoIds[index' + 1]>>)>>]_vars
\* playPrevious at index 0 of a playlist of several identifiers
C10_Witness ==
  /\ impl = FileA /\ ret.op = "call" /\ ret.key = "playPrevious"
  /\ realRuns = <<[key |-> "playPrevious", args |-> <<>>, value |-> Undef]>>
  /\ Len(videoIds) > 1 /\ index = Len(videoIds) - 1
  /\ playerLog = <<PlayerCall("loadVideoById", <<videoIds[Len(videoIds)]>>)>>
\* the records of the registry, as pairs of event name and id
Records(reg) == {x \in EventNames \X (1 .. MaxRegs + 2) : x[2] \in DOMAIN reg[x[1]].recs}

\* C4: a listener registered with the finite limit N has had at most N invocations,
\* whatever on(), off() and trigger() calls were made and from wherever; a trigger
\* that begins when the listener has had its N invocations does not invoke it,
\* and when that trigger returns the listener's record is gone
C4_BudgetLaw ==
  impl = FileB =>
    /\ \A x \in Records(listenersByName) :
         LET rec == listenersByName[x[1]].recs[x[2]]
         IN rec.n # Infinity => rec.count <= rec.n /\ rec.limit = rec.n - rec.count
    /\ \A k \in DOMAIN dispatched :
         LET d == dispatched[k]
         IN /\ d.spent0 \cap Range(d.called) = {}
            /\ d.spent0 \cap DOMAIN listenersByName[d.e].recs = {}
\* a trigger made from inside a handler returns, having met a spent listener
C4_Witness ==
  /\ impl = FileB /\ stack # <<>> /\ dispatched # <<>>
  /\ dispatched[1].spent0 # {} /\ dispatched[1].called = <<>>

\* C5: on('ready', handler, limit) with limit >= 1, called once the widget's ready
\* notification has occurred, calls the handler before it returns, with the
\* arguments of that notification, and leaves the listener registered with one
\* unit of its limit used
C5_ReadyReplay ==
  (impl = FileB /\ ret.op = "on" /\ ret.key = "ready" /\ ret.arg >= 1
     /\ origReady # NoArgs) =>
    /\ ret.outcome = "invoking" /\ ret.value = origReady
    /\ stack # <<>> /\ Top.kind = "replay" /\ Top.inHandler /\ Top.args = origReady
    /\ ret.id \in DOMAIN listenersByName["ready"].recs
    /\ LET rec == listenersByName["ready"].recs[ret.id]
       IN rec.handler \in Handlers /\ rec.limit = Dec(ret.arg)
\* on('ready', h, 1) after the ready notification
C5_Witness ==
  /\ impl = FileB /\ ret.op = "on" /\ ret.outcome = "invoking" /\ ret.arg = 1
  /\ ret.value \in Payloads
  /\ listenersByName["ready"].recs[ret.id].limit = 0

\* C7: a dispatch invokes the listeners in the order of their registration, none
\* twice and none that had no budget left when it began; when no handler touches
\* the registry meanwhile, it invokes exactly the listeners that were live when it
\* began, and otherwise every one of them that was not removed before its turn
C7_RegistrationOrder ==
  \A k \in DOMAIN dispatched :
    LET d == dispatched[k]
    IN /\ IsAscending(d.called)
       /\ Range(d.called) \cap d.spent0 = {}
       /\ d.live0 \subseteq Range(d.called) \cup d.dead
       /\ d.pure => d.called = Ascending(d.live0)
\* trigger() of part_000 has served three live listeners of one event
C7_Witness ==
  /\ impl = FileB /\ dispatched # <<>>
  /\ dispatched[1].pure /\ dispatched[1].called = <<1, 2, 3>>

\* C8: a dispatch returns even when handlers raise; the listeners after a faulting
\* one get their turn all the same; every faulting invocation leaves one timer
\* that is still pending when the dispatch returns, and a timer goes away only
\* by raising its exception on the host's error channel
C8_FaultIsolation ==
  [][/\ \A k \in DOMAIN dispatched' :
          LET d == dispatched'[k]
          IN /\ d.outcome = "returned"
             /\ d.sched = Cardinality(d.threw)
             /\ d.sched <= pendingThrows'
             /\ \A t \in d.threw : \A j \in d.live0 :
                  j > t => j \in Range(d.called) \cup d.dead
             /\ d.pure => d.dead \cap d.live0 = {}
     /\ pendingThrows' < pendingThrows => pendingThrows' = pendingThrows - 1 /\ raised' = 1
     /\ raised' = 1 => pendingThrows' = pendingThrows - 1]_vars
\* triggerHandlers() of YouTubeAudio.js: the first callback raised, the second ran
C8_Witness ==
  /\ impl = FileA /\ dispatched # <<>>
  /\ dispatched[1].threw = {1} /\ dispatched[1].called = <<1, 2>> /\ pendingThrows = 1

\* C9: off(handle) removes the record of the handle and returns its handler; for a
\* handle that has no record it returns, without raising, something that is no
\* handler, and leaves the registry as it was
C9_OffFindsOrReports ==
  [][(impl = FileB /\ ret'.op = "off") =>
       /\ ret'.outcome = "return"
       /\ IF listenersByName' = listenersByName
          THEN ret'.value \notin Handlers \cup {PlayVideoCb}
          ELSE \E x \in Records(listenersByName) :
                 /\ listenersByName' =
                      [listenersByName EXCEPT ![x[1]].recs = Del(@, x[2])]
                 /\ ret'.value = listenersByName[x[1]].recs[x[2]].handler]_vars
\* C11: once the playlist exists the index is one of its positions,
\* 0 <= index < length, whatever playNext, playPrevious, restart, setSources
\* (of a list that is not empty) and ENDED notifications came before
C11_IndexInPlaylist ==
  (impl = FileA /\ phaseA = "constructed") => index \in 0 .. Len(videoIds) - 1
\* a step that is an ENDED notification of the widget (YouTubeAudio.js)
EndedStep == impl = FileA /\ dispatched' # <<>> /\ dispatched'[1].e = "end"

\* C12: with _loop set and the facade ready, an ENDED notification moves the index
\* one position on, modulo the length of the playlist, and loads the identifier
\* there; with a1, a2, a3 it goes from a1 to a2 and from a3 back to a1
C12_EndedAdvances ==
  [][(EndedStep /\ loop /\ isReady) =>
       LET L == Len(videoIds)
       IN /\ index' = (index + 1) % L
          /\ videoIds' = videoIds
          /\ playerLog' = <<PlayerCall("loadVideoById", <<videoIds[index' + 1]>>)>>
          /\ (videoIds = <<"a1", "a2", "a3">> /\ index = 0) =>
               GetVideoIdOf(videoIds', index') = "a2"
          /\ (videoIds = <<"a1", "a2", "a3">> /\ index = 2) =>
               GetVideoIdOf(videoIds', index') = "a1"]_vars
\* the third ENDED notification in a row has brought a1, a2, a3 back to a1
C12_Witness ==
  /\ impl = FileA /\ dispatched # <<>> /\ dispatched[1].e = "end" /\ loop /\ isReady
  /\ videoIds = <<"a1", "a2", "a3">> /\ index = 0
  /\ playerLog = <<PlayerCall("loadVideoById", <<"a1">>)>>
\* C13: a call of init() on an instance (the constructor has made the first one)
\* throws an Error, ready or not, and changes nothing: the polling, the widget,
\* the guards and all the rest of the instance stay as they were
C13_SecondInitThrows ==
  [][(impl = FileA /\ ret'.op = "call" /\ ret'.key = "init") =>
       /\ ret'.outcome = "throw" /\ ret'.value = ErrorOf(InitMessage)
       /\ playerLog' = <<>> /\ realRuns' = <<>>
       /\ UNCHANGED <<phaseA, YouTube, isLoadingYTScript, injected, isReady, videoIds,
                      index, loop, autoPlayA, guards, callbacks, currentVideoId,
                      pendingThrows>>]_vars
\* init() called while the instance polls for the widget API
C13_Witness ==
  impl = FileA /\ ret.op = "call" /\ ret.key = "init" /\ phaseA = "pollYT"
\* C14: however many instances the page constructs and however often they poll,
\* the script element of the widget API is inserted at most once, and it has been
\* inserted if some instance has looked for the API and not found it
C14_InjectedOnce ==
  /\ injected <= 1
  /\ missed => injected = 1
\* three instances of YouTubeAudio.js have polled, one script element was inserted
C14_Witness ==
  /\ impl = FileA /\ injected = 1 /\ phaseA = "constructed"
  /\ Len(peers) = MaxPeers /\ \A i \in DOMAIN peers : peers[i] = "constructed"
\* C15: once destroy() has returned true, no later operation of the facade (a
\* transport call, cueItems, a notification of the widget) calls a method of the
\* widget or changes the state of the session, and every later destroy() returns
\* false
Destroyed == impl = FileB /\ phaseB \in {"constructed", "ready"} /\ ~wrapperInBody
C15_DestroyedIsTerminal ==
  [][Destroyed =>
       /\ playerLog' = <<>>
       /\ UNCHANGED <<listenersByName, readyArguments, stateId, autoPlayB, loopB, phaseB>>
       /\ (ret'.op = "call" /\ ret'.key = "destroy") => ret'.value = "false"]_vars
\* C16: trigger(eventName, args) returns the instance for every event name, also
\* for a name no listener was ever registered under
C16_TriggerReturnsInstance ==
  (impl = FileB /\ ret.op = "trigger" /\ ret.outcome = "return") => ret.value = "this"
\* C17: a state change the widget reports with a code of the enumeration is
\* dispatched exactly once as 'stateChange' and exactly once under the lower-cased
\* name of the state, and getState() is the upper-case name during both
InEnum(code) == States(code) # "undefined"
\* the dispatches the running state-change callback has still to make
Owed ==
  [i \in 1 .. Len(cont) |->
     IF cont[i].kind = "trigger" THEN cont[i].e ELSE toLowerCase(States(cont[i].code))]
Notifying == stack # <<>> /\ stack[1].by = "widget" /\ stack[1].args = StateEvt
C17_StateChangeDispatches ==
  [][(impl = FileB /\ stateId' # <<>> /\ InEnum(stateId'[1])) =>
       \* the callback begins: both dispatches are owed, none is made yet
       /\ (cont = <<>> /\ cont' # <<>> /\ cont'[1].args = StateEvt) =>
            /\ ret'.op # "dispatch"
            /\ GetState' = States(cont'[1].code)
            /\ Owed' = <<"stateChange", toLowerCase(GetState')>>
       \* a dispatch of the callback is the first one owed, and is owed no more
       /\ (ret'.op = "dispatch" /\ ret'.value = StateEvt) =>
            /\ Owed # <<>> /\ ret'.key = Head(Owed) /\ Owed' = Tail(Owed)
            /\ stateId' = stateId
       \* nothing else the callback does takes a dispatch off or puts one on
       /\ (cont # <<>> /\ Head(cont).args = StateEvt /\ ret'.op # "dispatch") =>
            cont' = cont /\ stateId' = stateId
       \* while a dispatch runs, its event and getState() agree
       /\ Notifying' =>
            /\ stateId' = stateId
            /\ stack'[1].e \in {"stateChange", toLowerCase(GetState')}
            /\ (stack'[1].e = "stateChange") <=> (cont' # <<>>)
       \* the callback is over only when nothing is owed
       /\ (rawOutcome' = "returned") => cont' = <<>>]_vars
\* the dispatch of 'cued' is under way although a listener of 'stateChange' threw
C17_Witness ==
  /\ impl = FileB /\ Notifying /\ stack[1].e = "cued" /\ GetState = "CUED"
  /\ pendingThrows > 0
\* C18: between the construction of the widget and its ready notification, that
\* is while isReady() is false, no transport method (play, pause, stop, next,
\* previous, seekTo, setVolume, getVolume, mute, unmute, isMuted, setLoop,
\* cueItems, cueShuffledItems) calls a method of the widget
IsReadyB == readyArguments # NoArgs
C18_NoWidgetCallBeforeReady ==
  (impl = FileB /\ ret.op = "call" /\ ret.key # "destroy" /\ ~IsReadyB) => playerLog = <<>>
\* C19: a PLAYING notification dispatches 'start' exactly when the video id the
\* widget reports differs from the id recorded at the previous 'start'; the
\* dispatches of one notification come in the order 'playing', 'start',
\* 'stateChange'
DispatchedNames == [i \in 1 .. Len(dispatched) |-> dispatched[i].e]
C19_StartOnNewVideo ==
  [][impl = FileA =>
       /\ (ret'.op = "notify" /\ ret'.arg = PlayerState.PLAYING) =>
            /\ DispatchedNames' = IF ret'.key # currentVideoId
                                  THEN <<"playing", "start", "stateChange">>
                                  ELSE <<"playing", "stateChange">>
            /\ currentVideoId' = ret'.key
       \* the recorded id changes with a dispatch of 'start' and not otherwise
       /\ (currentVideoId' # currentVideoId) =>
            /\ ret'.op = "notify" /\ ret'.arg = PlayerState.PLAYING
            /\ "start" \in Range(DispatchedNames')]_vars
\* PLAYING for the video that has already started: a listener of 'start' is
\* registered and is not called
C19_Witness ==
  /\ impl = FileA /\ ret.op = "notify" /\ ret.arg = PlayerState.PLAYING
  /\ ret.key = IdNames[1] /\ DispatchedNames = <<"playing", "stateChange">>
  /\ callbacks["start"] # <<>>
\* C20: a listener that a dispatch has called and whose budget the call has
\* brought to zero has no record any more when the next dispatch of the same
\* event begins. No listener of the model is registered with a budget below 1,
\* and only 'ready' is replayed by on(), so under any other name a record
\* without budget is one that a dispatch has called
C20_SpentRecordGoneBeforeNextDispatch ==
  \A i \in DOMAIN stack :
    (impl = FileB /\ stack[i].kind = "trigger" /\ stack[i].e # "ready") => stack[i].spent0 = {}
\* C21: if the document gets interactive or complete (document.body exists from
\* then on at the latest) and the widget's constructor gets available, then, the
\* timers that are set being run, every instance constructs its widget; an
\* instance that has constructed its widget polls no more and constructs no
\* second one; while the constructor is not available every instance keeps
\* polling and no error is raised
PhaseMain == IF impl = FileA THEN phaseA ELSE phaseB
DocumentUp == IF impl = FileA THEN docReady ELSE hasBody
Phases == {PhaseMain} \cup Range(peers)
C21_EventuallyConstructed ==
  <>[](DocumentUp /\ ytAvailable) => <>[](Phases = {"constructed"})
C21_ConstructedOnce ==
  [][/\ PhaseMain = "constructed" => PhaseMain' = "constructed"
     /\ \A i \in DOMAIN peers : peers[i] = "constructed" => peers'[i] = "constructed"]_vars
C21_PollsWhileUnavailable ==
  [](~ytAvailable) => [](raised = 0 /\ Phases \subseteq {"pollDoc", "pollYT", "polling"})
C21_PollingConstructs ==
  /\ C21_EventuallyConstructed
  /\ C21_ConstructedOnce
  /\ C21_PollsWhileUnavailable
\* C22: no exception leaves a raw callback of the widget (onReady,
\* onStateChange) synchronously, whatever the listeners do and whatever state
\* the widget reports, also when it reports a state before it has reported ready
C22_NoThrowOutOfRawCallback == rawOutcome # "threw"
\* C23: for every call of cueItems() or cueShuffledItems(), playVideo is issued
\* at the next 'cued' notification if and only if autoPlay was true when the
\* call was made, and it is issued once for the call, however the calls,
\* setAutoPlay() and the 'cued' notifications follow one another
CuedNotification == impl = FileB /\ Notifying /\ stack[1].e = "cued"
C23_AutoPlayAtNextCued ==
  [][CuedNotification =>
       \* playVideo is issued only if the calls this notification is the next
       \* one of were made with autoPlay
       /\ playerLog' # <<>> => cueCalls.served = {TRUE}
       \* and it has been issued by the end if one of them was
       /\ (dispatched' # <<>> /\ TRUE \in cueCalls.served) => dispatched'[1].called # <<>>
       \* no listener of cueItems() is called a second time
       /\ \A id \in DOMAIN listenersByName'["cued"].recs :
            listenersByName'["cued"].recs[id].count <= 1]_vars
\* C24: shuffling only permutes. The list cueShuffledItems() passes to the widget
\* and the playlist a construction with the shuffle option stores have the length
\* and the elements, each as often, of the configured list of sources; the stored
\* playlist changes afterwards with setSources() only
Count(list, x) == Cardinality({i \in DOMAIN list : list[i] = x})
SameElements(a, b) ==
  /\ Len(a) = Len(b)
  /\ \A x \in Range(a) \cup Range(b) : Count(a, x) = Count(b, x)
C24_ShufflePermutes ==
  /\ impl = FileA => SameElements(videoIds, Map(parseVideoId, optionsA.sources))
  /\ [][/\ (impl = FileA /\ videoIds' # videoIds) =>
             /\ ret'.op = "call" /\ ret'.key = "setSources"
             /\ videoIds' = Map(parseVideoId, ret'.arg[1])
        /\ (impl = FileB /\ ret'.op = "call" /\ ret'.key = "cueShuffledItems") =>
             /\ playerLog'[2].m = "cuePlaylist"
             /\ SameElements(playerLog'[2].a[1], Map(parseVideoIdB, ret'.arg))]_vars
\* a playlist with a repeated element that was stored in another order than
\* configured, after the facade has moved on in it
C24_Witness ==
  /\ impl = FileA /\ isReady /\ index = 1
  /\ Map(parseVideoId, optionsA.sources) = <<"a1", "a2", "a1">>
  /\ videoIds = <<"a2", "a1", "a1">>
\* C25: getIsReady() of YouTubeAudio.js is a guarded method: a call returns true,
\* or raises the error of an early call, or, with logEarlyCalls, logs the message
\* and returns undefined; it never returns false
GetIsReadyCalled == impl = FileA /\ ret.op = "call" /\ ret.key = "getIsReady"
C25_GetIsReadyNeverFalse ==
  GetIsReadyCalled =>
    /\ ret.value # Bool(FALSE)
    /\ \/ /\ isReady
          /\ ret.outcome = "return" /\ ret.value = Bool(TRUE) /\ console = <<>>
       \/ /\ ~isReady /\ ~optionsA.logEarlyCalls
          /\ ret.outcome = "throw" /\ ret.value = ErrorOf(EarlyMessage("getIsReady"))
          /\ console = <<>>
       \/ /\ ~isReady /\ optionsA.logEarlyCalls
          /\ ret.outcome = "return" /\ ret.value = Undef
          /\ console = <<EarlyMessage("getIsReady")>>
\* with logEarlyCalls, a call before the widget is ready has logged the message
C25_Witness ==
  /\ GetIsReadyCalled /\ phaseA = "constructed" /\ ~isReady
  /\ ret.value = Undef /\ console # <<>>
====
